---- MODULE Spec2Model ----
(***************************************************************************)
(* Request/response reliability layer of the Copilot MCP Bridge:           *)
(*   McpService             (src/src/mcpService.ts)                        *)
(*   CopilotChatParticipant (src/unnamed/part_002, chatParticipant.ts)     *)
(* Each chat turn is one invocation of handleChatRequest; it calls         *)
(* sendMcpRequest, whose retry loop suspends at the HTTP attempt and at    *)
(* the backoff delay.  JavaScript runs every callback to its next await,   *)
(* so one action is one such run: the continuation of handleChatRequest    *)
(* after `await sendMcpRequest` is part of the action that settles the     *)
(* call.                                                                   *)
(***************************************************************************)
EXTENDS Integers, Sequences, FiniteSets, TLC

\* ------------------------------------------------------------------ bounds
MaxRetries == 1

Turns == {"turn1", "turn2", "turn3", "turn4"}
Solo == "turn1"
Prompts == {"explain this", "fix bug"}
RandomIds == {"r7k2"}

\* ------------------------------------------------------------ configuration
\* The settings store delivers whatever the user typed: validateConfig only
\* warns, so retries below 0 reach the service.
RetriesDomain == (-1)..MaxRetries
Libraries == {"fetch", "axios"}
LogLevels == {"info", "debug"}

ConfigDomain ==
  [enabled : BOOLEAN, retries : RetriesDomain, library : Libraries, level : LogLevels]

\* The snapshots that differ from one another in the transport settings only.
AtLevel(level) == {c \in ConfigDomain : c.level = level}

\* ------------------------------------------------------------------ errors
McpErrorType ==
  {"CONNECTION_ERROR", "AUTHENTICATION_ERROR", "TIMEOUT_ERROR", "INVALID_RESPONSE",
   "RATE_LIMITED", "SERVER_ERROR", "CONFIGURATION_ERROR"}

McpError(type, message) == [type |-> type, message |-> message]

\* A JavaScript Error that is not an McpError (TypeError, SyntaxError, ...).
RawError(message) == [type |-> "Error", message |-> message]

\* `let lastError: Error | undefined` before the first failure.
Undefined == [type |-> "undefined", message |-> ""]

FetchFailed == RawError("fetch failed")
JsonSyntaxError == RawError("Unexpected token < in JSON at position 0")
UndefinedDeref == RawError("Cannot read properties of undefined (reading 'message')")

\* error.message.includes('fetch')
MentionsFetch(message) == message \in {"fetch failed"}

HttpStatusMessage(status) ==
  CASE status = 401 -> "HTTP 401: Unauthorized"
    [] status = 403 -> "HTTP 403: Forbidden"
    [] status = 429 -> "HTTP 429: Too Many Requests"
    [] status = 500 -> "HTTP 500: Internal Server Error"
    [] OTHER -> "HTTP error"

AxiosStatusMessage(status) ==
  CASE status = 401 -> "Request failed with status code 401"
    [] status = 403 -> "Request failed with status code 403"
    [] status = 429 -> "Request failed with status code 429"
    [] status = 500 -> "Request failed with status code 500"
    [] OTHER -> "Request failed"

\* An AxiosError: its code, the status of its response (0: no response) and
\* its message.
AxiosError(code, status, message) == [code |-> code, status |-> status, message |-> message]

handleAxiosError(error) ==
  IF error.code \in {"ECONNREFUSED", "ENOTFOUND"}
    THEN McpError("CONNECTION_ERROR", "Unable to connect to MCP server")
  ELSE IF error.code = "ECONNABORTED"
    THEN McpError("TIMEOUT_ERROR", "Request timed out")
  ELSE IF error.status \in {401, 403}
    THEN McpError("AUTHENTICATION_ERROR", "Authentication failed")
  ELSE IF error.status = 429
    THEN McpError("RATE_LIMITED", "Rate limit exceeded")
  ELSE McpError("SERVER_ERROR", error.message)

\* handleError(lastError!): an McpError passes, any other Error is wrapped;
\* reading .message of undefined throws a TypeError instead of returning.
handleError(error) ==
  IF error.type \in McpErrorType THEN error
  ELSE IF error = Undefined THEN UndefinedDeref
  ELSE IF MentionsFetch(error.message)
    THEN McpError("CONNECTION_ERROR", "Network request failed")
  ELSE McpError("SERVER_ERROR", error.message)

\* ------------------------------------------------------- server responses
\* McpResponse as parsed from a 2xx body.  "" stands for an absent string
\* field, <<>> for absent/empty suggestions.
McpData(enhancedPrompt, additionalContext, suggestions, metadata) ==
  [enhancedPrompt |-> enhancedPrompt, additionalContext |-> additionalContext,
   suggestions |-> suggestions, metadata |-> metadata]

EmptyData == McpData("", "", <<>>, "")

McpResponse(success, errorMessage, hasData, data) ==
  [success |-> success, errorMessage |-> errorMessage, hasData |-> hasData, data |-> data]

NoResponse == McpResponse(FALSE, "", FALSE, EmptyData)

\* What axios hands back for a 2xx body that is not JSON: the raw string,
\* on which .success, .error and .data are all undefined.
UnparsedBody == McpResponse(FALSE, "", FALSE, EmptyData)

\* The bodies the modelled server answers a 2xx with.
Bodies ==
  {McpResponse(TRUE, "", TRUE, McpData("enhanced: be precise", "", <<>>, "")),
   McpResponse(TRUE, "", TRUE, McpData("", "ctx: repo uses ts", <<"add tests">>, "{model: x}")),
   McpResponse(TRUE, "", FALSE, EmptyData),
   McpResponse(FALSE, "bad", FALSE, EmptyData)}

Statuses == {200, 401, 403, 429, 500}
ConnectCodes == {"ECONNREFUSED", "ENOTFOUND"}
IsOk(status) == status >= 200 /\ status < 300

\* ------------------------------------------------------------ chat stream
Markdown(parts) == [kind |-> "markdown", parts |-> parts]
Progress(parts) == [kind |-> "progress", parts |-> parts]

Contains(item, text) == \E i \in 1..Len(item.parts) : item.parts[i] = text

PassThroughSegmentNoPrompt(prompt) ==
  Markdown(<<"*Note: MCP integration is currently disabled.*">>)

PassThroughSegment(prompt) ==
  Markdown(<<"**Original prompt:** ", prompt,
             "\n\n*Note: MCP integration is currently disabled.*">>)

ProcessingIndicator == Progress(<<"Enhancing prompt with MCP server...">>)

RECURSIVE SuggestionItems(_)
SuggestionItems(suggestions) ==
  IF suggestions = <<>> THEN <<>>
  ELSE <<Markdown(<<"* ", Head(suggestions), "\n">>)>> \o SuggestionItems(Tail(suggestions))

handleMcpResponseNoCheck(mcpResponse, prompt, level) ==
  [threw |-> FALSE, error |-> Undefined,
   out |-> <<Markdown(<<"**Enhanced Prompt:** ",
                        IF mcpResponse.hasData /\ mcpResponse.data.enhancedPrompt # ""
                          THEN mcpResponse.data.enhancedPrompt ELSE prompt>>)>>]

handleMcpResponseContextFirst(mcpResponse, prompt, level) ==
  IF ~mcpResponse.success
    THEN [threw |-> TRUE,
          error |-> McpError("SERVER_ERROR",
                             IF mcpResponse.errorMessage # "" THEN mcpResponse.errorMessage
                             ELSE "MCP server returned unsuccessful response"),
          out |-> <<>>]
  ELSE IF ~mcpResponse.hasData
    THEN [threw |-> FALSE, error |-> Undefined,
          out |-> <<Markdown(<<"**Enhanced Prompt:** ", prompt>>)>>]
  ELSE LET data == mcpResponse.data IN
    [threw |-> FALSE, error |-> Undefined,
     out |->
       (IF data.additionalContext # ""
          THEN <<Markdown(<<"**Additional Context:**\n", data.additionalContext, "\n\n">>)>>
          ELSE <<>>)
       \o (IF data.enhancedPrompt # "" /\ data.enhancedPrompt # prompt
          THEN <<Markdown(<<"**Enhanced Prompt:** ", data.enhancedPrompt, "\n\n">>)>>
          ELSE <<>>)
       \o (IF Len(data.suggestions) > 0
          THEN <<Markdown(<<"**Suggestions:**\n">>)>> \o SuggestionItems(data.suggestions)
               \o <<Markdown(<<"\n">>)>>
          ELSE <<>>)
       \o (IF level = "debug" /\ data.metadata # ""
          THEN <<Markdown(<<"**Debug Info:**\n", data.metadata, "\n">>)>>
          ELSE <<>>)]

\* handleMcpResponse: [threw, error, out]; it throws before it writes.
handleMcpResponse(mcpResponse, prompt, level) ==
  IF ~mcpResponse.success
    THEN [threw |-> TRUE,
          error |-> McpError("SERVER_ERROR",
                             IF mcpResponse.errorMessage # "" THEN mcpResponse.errorMessage
                             ELSE "MCP server returned unsuccessful response"),
          out |-> <<>>]
  ELSE IF ~mcpResponse.hasData
    THEN [threw |-> FALSE, error |-> Undefined,
          out |-> <<Markdown(<<"**Enhanced Prompt:** ", prompt>>)>>]
  ELSE LET data == mcpResponse.data IN
    [threw |-> FALSE, error |-> Undefined,
     out |->
       (IF data.enhancedPrompt # "" /\ data.enhancedPrompt # prompt
          THEN <<Markdown(<<"**Enhanced Prompt:** ", data.enhancedPrompt, "\n\n">>)>>
          ELSE <<>>)
       \o (IF data.additionalContext # ""
          THEN <<Markdown(<<"**Additional Context:**\n", data.additionalContext, "\n\n">>)>>
          ELSE <<>>)
       \o (IF Len(data.suggestions) > 0
          THEN <<Markdown(<<"**Suggestions:**\n">>)>> \o SuggestionItems(data.suggestions)
               \o <<Markdown(<<"\n">>)>>
          ELSE <<>>)
       \o (IF level = "debug" /\ data.metadata # ""
          THEN <<Markdown(<<"**Debug Info:**\n", data.metadata, "\n">>)>>
          ELSE <<>>)]

FailedHeader == "X **MCP Enhancement Failed**\n\n"
FallbackNote == "\n\n**Fallback:** Using original prompt without enhancement.\n\n"

\* The switch of handleMcpError on error.type.
ErrorSentence(error) ==
  CASE error.type = "CONNECTION_ERROR" ->
         <<"Unable to connect to MCP server. Please check your configuration.">>
    [] error.type = "AUTHENTICATION_ERROR" ->
         <<"Authentication failed. Please check your API credentials.">>
    [] error.type = "TIMEOUT_ERROR" ->
         <<"Request timed out. The MCP server may be overloaded.">>
    [] error.type = "RATE_LIMITED" ->
         <<"Rate limit exceeded. Please wait before making another request.">>
    [] OTHER -> <<"Error: ", error.message>>

handleMcpErrorNoPrompt(error, prompt) ==
  Markdown(<<FailedHeader>> \o ErrorSentence(error) \o <<FallbackNote>>)

handleMcpError(error, prompt) ==
  Markdown(<<FailedHeader>> \o ErrorSentence(error)
           \o <<FallbackNote, "**Original Prompt:** ", prompt>>)

\* ------------------------------------------------------------ transports
\* What the endpoint does with one attempt.
Behaviour(kind, status, code, body) ==
  [kind |-> kind, status |-> status, code |-> code, body |-> body]

NoBehaviour == Behaviour("none", 0, "", NoResponse)
Refused(code) == Behaviour("refused", 0, code, NoResponse)
Answers(status) == Behaviour("status", status, "", NoResponse)
AnswersJson(body) == Behaviour("2xx json", 200, "", body)
AnswersNotJson == Behaviour("2xx not json", 200, "", NoResponse)
Silent == Behaviour("silent", 0, "", NoResponse)
Cancelled == Behaviour("cancelled", 0, "", NoResponse)

Resolved(response) == [ok |-> TRUE, response |-> response, error |-> Undefined]
Rejected(error) == [ok |-> FALSE, response |-> NoResponse, error |-> error]

\* makeFetchRequest against a behaviour.  "silent" and "cancelled" are the
\* attempt's signal being aborted, by the timer or by anything else: the
\* catch block cannot tell them apart.
makeFetchRequest(b) ==
  CASE b.kind = "refused" -> Rejected(FetchFailed)
    [] b.kind = "status" -> Rejected(McpError("SERVER_ERROR", HttpStatusMessage(b.status)))
    [] b.kind = "2xx json" -> Resolved(b.body)
    [] b.kind = "2xx not json" -> Rejected(JsonSyntaxError)
    [] OTHER -> Rejected(McpError("TIMEOUT_ERROR", "Request timed out"))

\* makeAxiosRequest against a behaviour (validateStatus: 2xx only).
makeAxiosRequest(b) ==
  CASE b.kind = "refused" ->
         Rejected(handleAxiosError(AxiosError(b.code, 0, "connect " \o b.code)))
    [] b.kind = "status" ->
         Rejected(handleAxiosError(
           AxiosError("ERR_BAD_RESPONSE", b.status, AxiosStatusMessage(b.status))))
    [] b.kind = "2xx json" -> Resolved(b.body)
    [] b.kind = "2xx not json" -> Resolved(UnparsedBody)
    [] OTHER ->
         Rejected(handleAxiosError(AxiosError("ECONNABORTED", 0, "timeout exceeded")))

\* makeHttpRequest's choice of client.
makeHttpRequest(lib, b) ==
  IF lib = "axios" THEN makeAxiosRequest(b) ELSE makeFetchRequest(b)

\* The ErrorKind an outcome is reported under ("ok": a response).
Class(outcome) == IF outcome.ok THEN "ok" ELSE handleError(outcome.error).type

\* ---------------------------------------------------------------- headers
\* Strings whose content matters are sequences of pieces: literal chunks of
\* the source and the characters of a token.
AuthTypes == {"none", "bearer", "api-key", "basic"}
HeaderNames == {"Authorization", "X-API-Key"}
TokenChars == {"u", ":", "p"}
MaxTokenLen == 3
Tokens == UNION {[1..n -> TokenChars] : n \in 0..MaxTokenLen}

AuthenticationConfig == [type : AuthTypes, token : Tokens, headerName : HeaderNames]

\* The defaults of getAuthenticationConfig.
DefaultAuthentication == [type |-> "none", token |-> <<>>, headerName |-> "Authorization"]

\* The UTF-8 code of a character of a token (all of them ASCII).
CharCode(ch) ==
  CASE ch = "u" -> 117
    [] ch = ":" -> 58
    [] ch = "p" -> 112

\* Buffer.from(token): the bytes of the token.
BufferFrom(token) == [i \in 1..Len(token) |-> CharCode(token[i])]

Base64Alphabet ==
  <<"A", "B", "C", "D", "E", "F", "G", "H", "I", "J", "K", "L", "M",
    "N", "O", "P", "Q", "R", "S", "T", "U", "V", "W", "X", "Y", "Z",
    "a", "b", "c", "d", "e", "f", "g", "h", "i", "j", "k", "l", "m",
    "n", "o", "p", "q", "r", "s", "t", "u", "v", "w", "x", "y", "z",
    "0", "1", "2", "3", "4", "5", "6", "7", "8", "9", "+", "/">>

Base64Digit(sextet) == Base64Alphabet[sextet + 1]

\* buffer.toString('base64'): three bytes give four digits, the rest is
\* padded with "=".
RECURSIVE ToBase64(_)
ToBase64(bytes) ==
  IF Len(bytes) = 0 THEN <<>>
  ELSE IF Len(bytes) = 1
    THEN <<Base64Digit(bytes[1] \div 4), Base64Digit((bytes[1] % 4) * 16), "=", "=">>
  ELSE IF Len(bytes) = 2
    THEN <<Base64Digit(bytes[1] \div 4),
           Base64Digit((bytes[1] % 4) * 16 + bytes[2] \div 16),
           Base64Digit((bytes[2] % 16) * 4), "=">>
  ELSE <<Base64Digit(bytes[1] \div 4),
         Base64Digit((bytes[1] % 4) * 16 + bytes[2] \div 16),
         Base64Digit((bytes[2] % 16) * 4 + bytes[3] \div 64),
         Base64Digit(bytes[3] % 64)>>
       \o ToBase64(SubSeq(bytes, 4, Len(bytes)))

\* The headers every request carries.
BaseHeaders ==
  [name \in {"Content-Type", "User-Agent", "X-VS-Code-Version", "X-Extension-Version"} |->
     CASE name = "Content-Type" -> <<"application/json">>
       [] name = "User-Agent" -> <<"VSCode-Copilot-MCP-Bridge/1.0.0">>
       [] name = "X-VS-Code-Version" -> <<"1.85.0">>
       [] name = "X-Extension-Version" -> <<"unknown">>]

\* headers[name] = value
SetHeader(hs, name, value) ==
  [n \in DOMAIN hs \cup {name} |-> IF n = name THEN value ELSE hs[n]]

buildHeadersBasicRaw(auth) ==
  IF auth.type # "none" /\ auth.token # <<>>
    THEN SetHeader(BaseHeaders, auth.headerName,
                   CASE auth.type = "bearer" -> <<"Bearer ">> \o auth.token
                     [] auth.type = "api-key" -> auth.token
                     [] auth.type = "basic" -> <<"Basic ">> \o auth.token)
    ELSE BaseHeaders

\* buildHeaders: the authentication header is added only for a type other
\* than 'none' and a token that is not the empty string.
buildHeaders(auth) ==
  IF auth.type # "none" /\ auth.token # <<>>
    THEN SetHeader(BaseHeaders, auth.headerName,
                   CASE auth.type = "bearer" -> <<"Bearer ">> \o auth.token
                     [] auth.type = "api-key" -> auth.token
                     [] auth.type = "basic" -> <<"Basic ">> \o ToBase64(BufferFrom(auth.token)))
    ELSE BaseHeaders

\* No request was built yet.
NoHeaders == <<>>

\* ---------------------------------------------------------------- context
\* features.includeWorkspaceContext and features.includeActiveFile.
FeatureConfig == [includeWorkspaceContext : BOOLEAN, includeActiveFile : BOOLEAN]
DefaultFeatures == [includeWorkspaceContext |-> TRUE, includeActiveFile |-> TRUE]

None == "undefined"

TextDocument(path, isUntitled, languageId, text) ==
  [path |-> path, isUntitled |-> isUntitled, languageId |-> languageId, text |-> text]

Position(line, character) == [line |-> line, character |-> character]

\* A selection and the text of the document it covers; it is empty when its
\* two ends are the same position.
Selection(start, end, text) == [start |-> start, end |-> end, text |-> text]
IsEmpty(selection) == selection.start = selection.end

TextEditor(document, selection) == [document |-> document, selection |-> selection]

\* vscode.window.activeTextEditor when no editor is open.
NoEditor ==
  TextEditor(TextDocument("", TRUE, "", ""), Selection(Position(0, 0), Position(0, 0), ""))

MainTs == TextDocument("/repo/main.ts", FALSE, "typescript", "let x = 1")
Untitled == TextDocument("Untitled-1", TRUE, "plaintext", "notes")

\* What the handler may find: the first workspace folder or none, the open
\* documents, and the active editor or none.
Workbenches ==
  [workspaceFolder : {None, "/repo"},
   textDocuments : {<<>>, <<MainTs>>, <<Untitled, MainTs>>},
   activeTextEditor :
     {NoEditor,
      TextEditor(MainTs, Selection(Position(0, 4), Position(0, 4), "")),
      TextEditor(MainTs, Selection(Position(0, 4), Position(0, 5), "x"))}]

NoWorkbench ==
  [workspaceFolder |-> None, textDocuments |-> <<>>, activeTextEditor |-> NoEditor]

\* textDocuments.filter(doc => !doc.isUntitled).map(doc => doc.uri.fsPath)
RECURSIVE OpenFiles(_)
OpenFiles(docs) ==
  IF docs = <<>> THEN <<>>
  ELSE (IF Head(docs).isUntitled THEN <<>> ELSE <<Head(docs).path>>)
       \o OpenFiles(Tail(docs))

ContextFields == <<"workspaceRoot", "openFiles", "activeFile", "selection">>
EmptyContext == <<>>

requestContextUngated(feats, wb) ==
  LET editor == wb.activeTextEditor
      present ==
        (IF wb.workspaceFolder # None THEN {"workspaceRoot", "openFiles"} ELSE {})
        \cup (IF editor # NoEditor THEN {"activeFile"} ELSE {})
        \cup (IF editor # NoEditor /\ ~IsEmpty(editor.selection) THEN {"selection"} ELSE {})
  IN [k \in present |->
        CASE k = "workspaceRoot" -> wb.workspaceFolder
          [] k = "openFiles" -> OpenFiles(wb.textDocuments)
          [] k = "activeFile" -> [path |-> editor.document.path,
                                  language |-> editor.document.languageId,
                                  content |-> editor.document.text]
          [] k = "selection" -> [start |-> editor.selection.start,
                                 end |-> editor.selection.end,
                                 text |-> editor.selection.text]]

\* requestContext of buildMcpRequest: the fields it assigns, each under its
\* flag and only when the workbench has the value.
requestContext(feats, wb) ==
  LET editor == wb.activeTextEditor
      workspace == feats.includeWorkspaceContext /\ wb.workspaceFolder # None
      active == feats.includeActiveFile /\ editor # NoEditor
      present ==
        (IF workspace THEN {"workspaceRoot", "openFiles"} ELSE {})
        \cup (IF active THEN {"activeFile"} ELSE {})
        \cup (IF active /\ ~IsEmpty(editor.selection) THEN {"selection"} ELSE {})
  IN [k \in present |->
        CASE k = "workspaceRoot" -> wb.workspaceFolder
          [] k = "openFiles" -> OpenFiles(wb.textDocuments)
          [] k = "activeFile" -> [path |-> editor.document.path,
                                  language |-> editor.document.languageId,
                                  content |-> editor.document.text]
          [] k = "selection" -> [start |-> editor.selection.start,
                                 end |-> editor.selection.end,
                                 text |-> editor.selection.text]]

RECURSIVE JSONarray(_)
JSONarray(strings) ==
  IF strings = <<>> THEN <<>>
  ELSE <<"\"", Head(strings), "\"">>
       \o (IF Tail(strings) = <<>> THEN <<>> ELSE <<",">>)
       \o JSONarray(Tail(strings))

JSONposition(position) ==
  <<"{\"line\":", ToString(position.line),
    ",\"character\":", ToString(position.character), "}">>

\* JSON.stringify of one field of the context.
JSONfield(k, v) ==
  CASE k = "workspaceRoot" -> <<"\"workspaceRoot\":\"", v, "\"">>
    [] k = "openFiles" -> <<"\"openFiles\":[">> \o JSONarray(v) \o <<"]">>
    [] k = "activeFile" ->
         <<"\"activeFile\":{\"path\":\"", v.path, "\",\"language\":\"", v.language,
           "\",\"content\":\"", v.content, "\"}">>
    [] k = "selection" ->
         <<"\"selection\":{\"start\":">> \o JSONposition(v.start)
         \o <<",\"end\":">> \o JSONposition(v.end)
         \o <<",\"text\":\"", v.text, "\"}">>

\* JSON.stringify of the context: the fields it has, in the order assigned.
RECURSIVE JSONfields(_, _, _)
JSONfields(context, i, first) ==
  IF i > Len(ContextFields) THEN <<>>
  ELSE LET k == ContextFields[i] IN
       IF k \in DOMAIN context
         THEN (IF first THEN <<>> ELSE <<",">>) \o JSONfield(k, context[k])
              \o JSONfields(context, i + 1, FALSE)
         ELSE JSONfields(context, i + 1, first)

JSONcontext(context) == <<"{">> \o JSONfields(context, 1, TRUE) \o <<"}">>

\* ------------------------------------------------------------------- state
VARIABLES
  svcConfig,        \* McpService.config
  cpConfig,         \* CopilotChatParticipant.config
  abortController,  \* McpService.abortController: NoController or the turn
                    \* whose fetch attempt created the controller it holds
  sessions,         \* CopilotChatParticipant.sessions: id -> ChatSession
  now,              \* Date.now()
  turn,             \* per chat turn: the run of handleChatRequest
  call,             \* per chat turn: its call of sendMcpRequest
  authentication,   \* McpService.config.authentication
  headers,          \* the headers of the attempt started last
  features,         \* CopilotChatParticipant.config.features: the context flags
  workbench         \* vscode.workspace and vscode.window, as the handler finds them

vars == <<svcConfig, cpConfig, abortController, sessions, now, turn, call,
          authentication, headers, features, workbench>>

NoSession == "no session"
NoController == "undefined"
UserId == "user-dev"

\* The attempt that ended last, as the server and the clock saw it (history).
NotSeen == [lib |-> "none", beh |-> NoBehaviour, elapsed |-> FALSE, class |-> "none"]

\* What testConnection resolved with; NoTest while it has not.
TestResult(success, message) == [success |-> success, message |-> message]
NoTest == TestResult(FALSE, <<>>)

InitTurn ==
  [pc |-> "idle", prompt |-> "", token |-> FALSE, session |-> NoSession, stream |-> <<>>,
   tested |-> NoTest]

\* The McpRequest of buildMcpRequest.
McpRequest(prompt, sessionId, userId, timestamp, context) ==
  [prompt |-> prompt, sessionId |-> sessionId, userId |-> userId,
   timestamp |-> timestamp, context |-> context,
   metadata |-> "{\"extensionVersion\":\"unknown\",\"vscodeVersion\":\"1.85.0\"}"]

NoRequest == McpRequest("", "", "", 0, EmptyContext)

\* JSON.stringify(mcpRequest): the fields in the order of the literal.
JSONstringify(mcpRequest) ==
  <<"{\"prompt\":\"", mcpRequest.prompt,
    "\",\"sessionId\":\"", mcpRequest.sessionId,
    "\",\"userId\":\"", mcpRequest.userId,
    "\",\"timestamp\":", ToString(mcpRequest.timestamp),
    ",\"context\":">> \o JSONcontext(mcpRequest.context) \o
  <<",\"metadata\":", mcpRequest.metadata, "}">>

InitCall ==
  [pc |-> "none", attempt |-> 0, lastError |-> Undefined,
   result |-> NoResponse, thrown |-> Undefined,
   request |-> NoRequest, sent |-> <<>>,
   lib |-> "none", phase |-> "none", timer |-> FALSE,
   elapsed |-> FALSE, httpAttempts |-> 0,
   retries0 |-> 0, stable |-> TRUE, seen |-> NotSeen, delays |-> <<>>]

Init ==
  /\ svcConfig \in AtLevel("info")
  /\ cpConfig = svcConfig
  /\ abortController = NoController
  /\ sessions = <<>>
  /\ now = 0
  /\ turn = [t \in Turns |-> InitTurn]
  /\ call = [t \in Turns |-> InitCall]
  /\ authentication = DefaultAuthentication
  /\ headers = NoHeaders
  /\ features = DefaultFeatures
  /\ workbench = NoWorkbench

\* ---------------------------------------------------------- sendMcpRequest
\* makeHttpRequest up to the await of fetch()/axios(): the fetch transport
\* arms its timeout timer, axios is given the timeout as an option.
StartAttemptRestamped(c, cfg) ==
  [c EXCEPT !.pc = "inflight", !.lib = cfg.library, !.phase = "connecting",
            !.timer = (cfg.library = "fetch"), !.elapsed = FALSE,
            !.httpAttempts = @ + 1,
            !.sent = Append(@, JSONstringify([c.request EXCEPT !.timestamp = now]))]

StartAttempt(c, cfg) ==
  [c EXCEPT !.pc = "inflight", !.lib = cfg.library, !.phase = "connecting",
            !.timer = (cfg.library = "fetch"), !.elapsed = FALSE,
            !.httpAttempts = @ + 1,
            !.sent = Append(@, JSONstringify(c.request))]

ThrowLastAsResult(c) ==
  [c EXCEPT !.pc = "returned", !.result = McpResponse(FALSE, c.lastError.message, FALSE, EmptyData),
            !.phase = "none", !.timer = FALSE]

\* `throw this.handleError(lastError!)` after the loop.
ThrowLast(c) ==
  [c EXCEPT !.pc = "threw", !.thrown = handleError(c.lastError),
            !.phase = "none", !.timer = FALSE]

LoopHeadStrict(c, cfg) ==
  IF c.attempt < cfg.retries THEN StartAttempt(c, cfg) ELSE ThrowLast(c)

\* The head of `while (attempt <= this.config.mcpServer.retries)`.
LoopHead(c, cfg) ==
  IF c.attempt <= cfg.retries THEN StartAttempt(c, cfg) ELSE ThrowLast(c)

Min(a, b) == IF a <= b THEN a ELSE b

BackoffDelayLinear(attempt) == Min(1000 * attempt, 10000)

BackoffDelayUncapped(attempt) == 1000 * 2 ^ (attempt - 1)

\* const delay = Math.min(1000 * Math.pow(2, attempt - 1), 10000)
BackoffDelay(attempt) == Min(1000 * 2 ^ (attempt - 1), 10000)

CatchNoDelay(c, error, cfg) ==
  LoopHead([c EXCEPT !.lastError = error, !.attempt = @ + 1,
                     !.phase = "none", !.timer = FALSE], cfg)

CatchKeepFirst(c, error, cfg) ==
  LET c1 == [c EXCEPT !.lastError = IF @ = Undefined THEN error ELSE @,
                      !.attempt = @ + 1,
                      !.phase = "none", !.timer = FALSE]
  IN IF c1.attempt <= cfg.retries
       THEN [c1 EXCEPT !.pc = "backoff", !.delays = Append(@, BackoffDelay(c1.attempt))]
       ELSE LoopHead(c1, cfg)

\* The catch block of the loop, then the loop head unless it awaits the delay.
\* delays is history: the delays the call has awaited, in order.
Catch(c, error, cfg) ==
  LET c1 == [c EXCEPT !.lastError = error, !.attempt = @ + 1,
                      !.phase = "none", !.timer = FALSE]
  IN IF c1.attempt <= cfg.retries
       THEN [c1 EXCEPT !.pc = "backoff", !.delays = Append(@, BackoffDelay(c1.attempt))]
       ELSE LoopHead(c1, cfg)

\* `return response` inside the loop.
Return(c, response) ==
  [c EXCEPT !.pc = "returned", !.result = response, !.phase = "none", !.timer = FALSE]

sendMcpRequest(c, prompt, cfg) ==
  IF ~cfg.enabled
    THEN Return(c, McpResponse(TRUE, "", TRUE, McpData(prompt, "", <<>>, "")))
    ELSE LoopHead([c EXCEPT !.attempt = 0, !.lastError = Undefined,
                            !.retries0 = cfg.retries, !.stable = TRUE], cfg)

EndAttemptBodyChecked(c, b, cfg) ==
  LET outcome == makeHttpRequest(c.lib, b)
      c1 == [c EXCEPT !.seen = [lib |-> c.lib, beh |-> b, elapsed |-> c.elapsed,
                                class |-> Class(outcome)]]
  IN IF outcome.ok /\ outcome.response.success
       THEN Return(c1, outcome.response)
     ELSE IF outcome.ok
       THEN Catch(c1, McpError("SERVER_ERROR", outcome.response.errorMessage), cfg)
     ELSE Catch(c1, outcome.error, cfg)

\* The attempt of c ends: makeHttpRequest settles as `outcome`, and the loop
\* body returns the response or runs its catch block.  seen is history: how
\* the attempt was answered and classified.
EndAttempt(c, b, cfg) ==
  LET outcome == makeHttpRequest(c.lib, b)
      c1 == [c EXCEPT !.seen = [lib |-> c.lib, beh |-> b, elapsed |-> c.elapsed,
                                class |-> Class(outcome)]]
  IN IF outcome.ok THEN Return(c1, outcome.response) ELSE Catch(c1, outcome.error, cfg)

\* --------------------------------------------------------- handleChatRequest
isCancellationRequestedNever(tr) == FALSE

\* token.isCancellationRequested, as the handler reads it.
isCancellationRequested(tr) == tr.token

\* The code of testConnection after `await this.sendMcpRequest(testRequest)`:
\* the return of the try block or that of the catch block.
testConnectionResult(tr, c) ==
  IF c.pc = "returned"
    THEN [tr EXCEPT !.pc = "done", !.tested = TestResult(TRUE, <<"Connection successful">>)]
  ELSE IF c.pc = "threw"
    THEN [tr EXCEPT !.pc = "done",
                    !.tested = TestResult(FALSE, <<"Connection failed: ",
                                                   handleError(c.thrown).message>>)]
  ELSE tr

\* The code after `await this.mcpService.sendMcpRequest(mcpRequest)`.
Resume(tr, c, level) ==
  IF tr.pc = "testing" THEN testConnectionResult(tr, c)
  ELSE IF c.pc = "returned"
    THEN IF isCancellationRequested(tr)
           THEN [tr EXCEPT !.pc = "done"]
           ELSE LET r == handleMcpResponse(c.result, tr.prompt, level) IN
                IF r.threw
                  THEN [tr EXCEPT !.pc = "done",
                                  !.stream = Append(@, handleMcpError(r.error, tr.prompt))]
                  ELSE [tr EXCEPT !.pc = "done", !.stream = @ \o r.out]
  ELSE IF c.pc = "threw"
    THEN [tr EXCEPT !.pc = "done",
                    !.stream = Append(@, handleMcpError(c.thrown, tr.prompt))]
  ELSE tr

\* session.lastActivity = Date.now(); session.messageCount++
SessionsAfter(tr, c, level, ss, time) ==
  IF /\ c.pc = "returned"
     /\ ~isCancellationRequested(tr)
     /\ ~handleMcpResponse(c.result, tr.prompt, level).threw
     /\ tr.session \in DOMAIN ss
    THEN [ss EXCEPT ![tr.session].lastActivity = time, ![tr.session].messageCount = @ + 1]
    ELSE ss

SessionId(hasHistory, time, rnd) ==
  IF hasHistory THEN "session-" \o ToString(time) ELSE "session-" \o rnd

NewSessionCounted(id, time) ==
  [id |-> id, userId |-> UserId, startTime |-> time, lastActivity |-> time,
   messageCount |-> 1]

NewSession(id, time) ==
  [id |-> id, userId |-> UserId, startTime |-> time, lastActivity |-> time,
   messageCount |-> 0]

getOrCreateSession(ss, id, time) ==
  IF id \in DOMAIN ss THEN ss
  ELSE [i \in DOMAIN ss \cup {id} |-> IF i = id THEN NewSession(id, time) ELSE ss[i]]

\* buildMcpRequest: the request is stamped with the time it is built at.
buildMcpRequest(prompt, session, time, feats, wb) ==
  McpRequest(prompt, session.id, session.userId, time, requestContext(feats, wb))

HandleChatRequest(t, p, hasHistory, rnd) ==
  /\ turn[t].pc = "idle"
  /\ IF ~cpConfig.enabled
       THEN /\ turn' = [turn EXCEPT ![t] = [@ EXCEPT !.pc = "done", !.prompt = p,
                                                     !.stream = <<PassThroughSegment(p)>>]]
            /\ UNCHANGED <<call, sessions, abortController, headers>>
       ELSE LET id == SessionId(hasHistory, now, rnd)
                ss == getOrCreateSession(sessions, id, now)
                tr == [turn[t] EXCEPT !.prompt = p, !.session = id,
                                      !.stream = <<ProcessingIndicator>>]
            IN IF isCancellationRequested(tr)
                 THEN /\ turn' = [turn EXCEPT ![t] = [tr EXCEPT !.pc = "done"]]
                      /\ sessions' = ss
                      /\ UNCHANGED <<call, abortController, headers>>
                 ELSE LET mcpRequest == buildMcpRequest(p, ss[id], now, features, workbench)
                          c1 == sendMcpRequest([call[t] EXCEPT !.request = mcpRequest],
                                               p, svcConfig)
                          tr1 == [tr EXCEPT !.pc = "sending"]
                      IN /\ call' = [call EXCEPT ![t] = c1]
                         /\ turn' = [turn EXCEPT ![t] = Resume(tr1, c1, cpConfig.level)]
                         /\ sessions' = SessionsAfter(tr1, c1, cpConfig.level, ss, now)
                         /\ abortController' =
                              IF c1.pc = "inflight" /\ c1.lib = "fetch" THEN t
                              ELSE abortController
                         /\ headers' = IF c1.pc = "inflight"
                                         THEN buildHeaders(authentication)
                                         ELSE headers
  /\ UNCHANGED <<svcConfig, cpConfig, now, authentication, features, workbench>>

UnexpectedError ==
  Markdown(<<"X **Error:** An unexpected error occurred while processing your request.">>)

\* A call the handler makes before its inner try block throws: at "session"
\* in getOrCreateSession, before the session is stored; at "payload" in
\* buildMcpRequest, after the session and the processing indicator.  The
\* outer catch block logs the error and writes its own message.
HandlerFails(t, p, stage, hasHistory, rnd) ==
  /\ turn[t].pc = "idle"
  /\ cpConfig.enabled
  /\ LET id == SessionId(hasHistory, now, rnd) IN
     IF stage = "session"
       THEN /\ turn' = [turn EXCEPT ![t] = [@ EXCEPT !.pc = "done", !.prompt = p,
                                                     !.stream = <<UnexpectedError>>]]
            /\ UNCHANGED sessions
       ELSE /\ turn' = [turn EXCEPT ![t] =
                          [@ EXCEPT !.pc = "done", !.prompt = p, !.session = id,
                                    !.stream = <<ProcessingIndicator, UnexpectedError>>]]
            /\ sessions' = getOrCreateSession(sessions, id, now)
  /\ UNCHANGED <<svcConfig, cpConfig, abortController, now, call, authentication, headers, features, workbench>>

TestPrompt == "__TEST_CONNECTION__"

\* McpService.testConnection up to its await.
TestConnection(t) ==
  /\ turn[t].pc = "idle"
  /\ LET testRequest == McpRequest(TestPrompt, "test", "test", now, EmptyContext)
         c1 == sendMcpRequest([call[t] EXCEPT !.request = testRequest], TestPrompt, svcConfig)
         tr1 == [turn[t] EXCEPT !.pc = "testing", !.prompt = TestPrompt]
     IN /\ call' = [call EXCEPT ![t] = c1]
        /\ turn' = [turn EXCEPT ![t] = Resume(tr1, c1, cpConfig.level)]
        /\ abortController' = IF c1.pc = "inflight" /\ c1.lib = "fetch" THEN t
                              ELSE abortController
        /\ headers' = IF c1.pc = "inflight" THEN buildHeaders(authentication) ELSE headers
  /\ UNCHANGED <<svcConfig, cpConfig, sessions, now, authentication, features, workbench>>

\* The host triggers the CancellationToken of the turn.
CancelToken(t) ==
  /\ turn[t].pc # "done"
  /\ ~turn[t].token
  /\ turn' = [turn EXCEPT ![t].token = TRUE]
  /\ UNCHANGED <<svcConfig, cpConfig, abortController, sessions, now, call,
                  authentication, headers, features, workbench>>

\* ------------------------------------------------------------ one attempt
InFlight(t) == call[t].pc = "inflight"

\* The call of t goes on as c1 in the given calls; its caller is resumed
\* when it has settled.
SettleIn(calls, t, c1) ==
  /\ call' = [calls EXCEPT ![t] = c1]
  /\ turn' = [turn EXCEPT ![t] = Resume(turn[t], c1, cpConfig.level)]
  /\ sessions' = SessionsAfter(turn[t], c1, cpConfig.level, sessions, now)

Settle(t, c1) == SettleIn(call, t, c1)

\* controller.abort() on the controller McpService.abortController holds:
\* the fetch attempt that was given its signal rejects with an AbortError;
\* on the controller of an attempt that is over it has no effect.
Hits(calls, target) ==
  /\ target # NoController
  /\ calls[target].pc = "inflight"
  /\ calls[target].lib = "fetch"

Abort(calls, target, b) ==
  IF Hits(calls, target)
    THEN SettleIn(calls, target, EndAttempt(calls[target], b, svcConfig))
    ELSE /\ call' = calls
         /\ UNCHANGED <<turn, sessions>>

\* The endpoint cannot be reached (connection refused, DNS failure).
ConnectionFails(t, code) ==
  /\ InFlight(t)
  /\ call[t].phase = "connecting"
  /\ Settle(t, EndAttempt(call[t], Refused(code), svcConfig))
  /\ UNCHANGED <<svcConfig, cpConfig, abortController, now, authentication, headers, features, workbench>>

\* The response status line and headers arrive.  fetch resolves and the
\* timer is cleared before the body is read; axios goes on buffering.
StatusArrives(t, status) ==
  /\ InFlight(t)
  /\ call[t].phase = "connecting"
  /\ IF IsOk(status)
       THEN Settle(t, [call[t] EXCEPT !.phase = "body", !.timer = FALSE])
       ELSE Settle(t, EndAttempt(call[t], Answers(status), svcConfig))
  /\ UNCHANGED <<svcConfig, cpConfig, abortController, now, authentication, headers, features, workbench>>

\* The body of a 2xx response arrives and parses as JSON.
BodyArrives(t, body) ==
  /\ InFlight(t)
  /\ call[t].phase = "body"
  /\ Settle(t, EndAttempt(call[t], AnswersJson(body), svcConfig))
  /\ UNCHANGED <<svcConfig, cpConfig, abortController, now, authentication, headers, features, workbench>>

\* The body of a 2xx response arrives and is not JSON.
BodyUnparseable(t) ==
  /\ InFlight(t)
  /\ call[t].phase = "body"
  /\ Settle(t, EndAttempt(call[t], AnswersNotJson, svcConfig))
  /\ UNCHANGED <<svcConfig, cpConfig, abortController, now, authentication, headers, features, workbench>>

\* The configured timeout has passed since the attempt of t started.  axios
\* rejects with ECONNABORTED.  On fetch the timer callback, unless the timer
\* was cleared, runs `this.abortController?.abort()`.
TimeoutElapses(t) ==
  /\ InFlight(t)
  /\ ~call[t].elapsed
  /\ LET c == [call[t] EXCEPT !.elapsed = TRUE, !.timer = FALSE]
         calls == [call EXCEPT ![t] = c]
     IN IF c.lib = "axios"
          THEN Settle(t, EndAttempt(c, Silent, svcConfig))
          ELSE IF call[t].timer
            THEN Abort(calls, abortController,
                       IF abortController = t THEN Silent ELSE Cancelled)
            ELSE Abort(calls, NoController, Cancelled)
  /\ UNCHANGED <<svcConfig, cpConfig, abortController, now, authentication, headers, features, workbench>>

\* The backoff delay of t is over: the loop head runs again.
BackoffElapses(t) ==
  /\ call[t].pc = "backoff"
  /\ LET c1 == LoopHead(call[t], svcConfig) IN
     /\ Settle(t, c1)
     /\ abortController' = IF c1.pc = "inflight" /\ c1.lib = "fetch" THEN t
                           ELSE abortController
     /\ headers' = IF c1.pc = "inflight" THEN buildHeaders(authentication) ELSE headers
  /\ UNCHANGED <<svcConfig, cpConfig, now, authentication, features, workbench>>

\* McpService.cancelRequests(), also reached through dispose().
CancelRequests ==
  /\ abortController # NoController
  /\ Abort(call, abortController, Cancelled)
  /\ abortController' = NoController
  /\ UNCHANGED <<svcConfig, cpConfig, now, authentication, headers, features, workbench>>

\* The configuration change listener of activate(): both holders get the
\* new snapshot in the same callback.
OnConfigurationChanged(newConfig) ==
  /\ newConfig # svcConfig
  /\ svcConfig' = newConfig
  /\ cpConfig' = newConfig
  /\ call' = [t \in Turns |->
               IF call[t].pc \in {"inflight", "backoff"}
                 THEN [call[t] EXCEPT !.stable = @ /\ newConfig.retries = svcConfig.retries]
                 ELSE call[t]]
  /\ UNCHANGED <<abortController, sessions, now, turn, authentication, headers, features, workbench>>

\* One chat turn, under transport settings that may change until it is over.
Next ==
  \/ \E p \in Prompts, hasHistory \in BOOLEAN, rnd \in RandomIds :
       HandleChatRequest(Solo, p, hasHistory, rnd)
  \/ CancelToken(Solo)
  \/ \E code \in ConnectCodes : ConnectionFails(Solo, code)
  \/ \E status \in Statuses : StatusArrives(Solo, status)
  \/ \E body \in Bodies : BodyArrives(Solo, body)
  \/ BodyUnparseable(Solo)
  \/ TimeoutElapses(Solo)
  \/ BackoffElapses(Solo)
  \/ CancelRequests
  \/ /\ turn[Solo].pc # "done"
     /\ \E newConfig \in AtLevel(cpConfig.level) : OnConfigurationChanged(newConfig)

Spec == Init /\ [][Next]_vars

\* ------------------------------------------------- sessions and the clock
\* `const maxAge = 24 * 60 * 60 * 1000` of cleanupSessions, in milliseconds.
maxAge == 24 * 60 * 60 * 1000

\* The clock is followed for MaxMs milliseconds from the start and for MaxMs
\* milliseconds from maxAge on.
MaxMs == 1
ClockSteps == {1, maxAge}

cleanupSessionsAtAge(ss, time) ==
  [id \in {i \in DOMAIN ss : ~(time - ss[i].lastActivity >= maxAge)} |-> ss[id]]

\* cleanupSessions at Date.now() = time: the entries it does not delete.
cleanupSessions(ss, time) ==
  [id \in {i \in DOMAIN ss : ~(time - ss[i].lastActivity > maxAge)} |-> ss[id]]

\* The cleanupInterval callback of activate().
CleanupSessions ==
  /\ sessions' = cleanupSessions(sessions, now)
  /\ UNCHANGED <<svcConfig, cpConfig, abortController, now, turn, call,
                  authentication, headers, features, workbench>>

\* Time passes: Date.now() grows by d milliseconds.
Tick(d) ==
  /\ now + d <= maxAge + MaxMs
  /\ (now + d) % maxAge <= MaxMs
  /\ now' = now + d
  /\ UNCHANGED <<svcConfig, cpConfig, abortController, sessions, turn, call,
                  authentication, headers, features, workbench>>

\* Two conversations of two prompts each.  The chat view takes the next
\* prompt of a conversation when the turn before it is over, and hands the
\* turns before it to the handler as context.history.
Conversation(t) == IF t \in {"turn1", "turn3"} THEN "conversation A" ELSE "conversation B"
Earlier(t) ==
  CASE t = "turn3" -> {"turn1"}
    [] t = "turn4" -> {"turn2"}
    [] OTHER -> {}

\* Math.random() is taken not to repeat a value it gave to a turn before.
RandomDraws == {"r7k2", "q9x1"}
NotDrawn(rnd) == \A u \in Turns : turn[u].session # SessionId(FALSE, now, rnd)

Prompt(t, rnd) ==
  /\ \A u \in Earlier(t) : turn[u].pc = "done"
  /\ Earlier(t) = {} => NotDrawn(rnd)
  /\ HandleChatRequest(t, "explain this", Earlier(t) # {}, rnd)

InitSessions ==
  /\ svcConfig = [enabled |-> TRUE, retries |-> 0, library |-> "axios", level |-> "info"]
  /\ cpConfig = svcConfig
  /\ abortController = NoController
  /\ sessions = <<>>
  /\ now = 0
  /\ turn = [t \in Turns |-> InitTurn]
  /\ call = [t \in Turns |-> InitCall]
  /\ authentication = DefaultAuthentication
  /\ headers = NoHeaders
  /\ features = DefaultFeatures
  /\ workbench = NoWorkbench

NextSessions ==
  \/ \E t \in Turns, rnd \in RandomDraws : Prompt(t, rnd)
  \/ \E t \in Turns : ConnectionFails(t, "ECONNREFUSED")
  \/ \E t \in Turns : StatusArrives(t, 200)
  \/ \E t \in Turns :
       BodyArrives(t, McpResponse(TRUE, "", TRUE, McpData("enhanced: be precise", "", <<>>, "")))
  \/ \E d \in ClockSteps : Tick(d)
  \/ CleanupSessions

SpecSessions == InitSessions /\ [][NextSessions]_vars

\* ------------------------------------------------- the life of a session
\* The two turns of one conversation, either of which may be cancelled,
\* fail or succeed, with the clock and the sweep.
LifetimeTurns == {"turn1", "turn3"}

NextLifetime ==
  \/ \E t \in LifetimeTurns, rnd \in RandomDraws : Prompt(t, rnd)
  \/ \E t \in LifetimeTurns : CancelToken(t)
  \/ \E t \in LifetimeTurns : ConnectionFails(t, "ECONNREFUSED")
  \/ \E t \in LifetimeTurns : StatusArrives(t, 200)
  \/ \E t \in LifetimeTurns :
       BodyArrives(t, McpResponse(TRUE, "", TRUE, McpData("enhanced: be precise", "", <<>>, "")))
  \/ \E d \in ClockSteps : Tick(d)
  \/ CleanupSessions

SpecLifetime == InitSessions /\ [][NextLifetime]_vars

\* ------------------------------------------------- one request over time
\* One turn whose request is retried while the clock goes on.
InitClock ==
  /\ svcConfig \in {c \in AtLevel("info") : c.enabled /\ c.retries >= 0}
  /\ cpConfig = svcConfig
  /\ abortController = NoController
  /\ sessions = <<>>
  /\ now = 0
  /\ turn = [t \in Turns |-> InitTurn]
  /\ call = [t \in Turns |-> InitCall]
  /\ authentication = DefaultAuthentication
  /\ headers = NoHeaders
  /\ features = DefaultFeatures
  /\ workbench = NoWorkbench

NextClock ==
  \/ \E p \in Prompts, hasHistory \in BOOLEAN, rnd \in RandomIds :
       HandleChatRequest(Solo, p, hasHistory, rnd)
  \/ \E code \in ConnectCodes : ConnectionFails(Solo, code)
  \/ \E status \in Statuses : StatusArrives(Solo, status)
  \/ \E body \in Bodies : BodyArrives(Solo, body)
  \/ BodyUnparseable(Solo)
  \/ TimeoutElapses(Solo)
  \/ BackoffElapses(Solo)
  \/ \E d \in ClockSteps : Tick(d)

SpecClock == InitClock /\ [][NextClock]_vars

\* ------------------------------------------------- a failing transport
\* One request against an endpoint that never answers 2xx, with enough
\* retries for the delay to reach its cap.
MaxFailRetries == 5

InitBackoff ==
  /\ svcConfig \in {[enabled |-> TRUE, retries |-> r, library |-> l, level |-> "info"] :
                      r \in 0..MaxFailRetries, l \in Libraries}
  /\ cpConfig = svcConfig
  /\ abortController = NoController
  /\ sessions = <<>>
  /\ now = 0
  /\ turn = [t \in Turns |-> InitTurn]
  /\ call = [t \in Turns |-> InitCall]
  /\ authentication = DefaultAuthentication
  /\ headers = NoHeaders
  /\ features = DefaultFeatures
  /\ workbench = NoWorkbench

NextBackoff ==
  \/ \E p \in Prompts, rnd \in RandomIds : HandleChatRequest(Solo, p, FALSE, rnd)
  \/ \E code \in ConnectCodes : ConnectionFails(Solo, code)
  \/ \E status \in Statuses \ {200} : StatusArrives(Solo, status)
  \/ TimeoutElapses(Solo)
  \/ BackoffElapses(Solo)

SpecBackoff == InitBackoff /\ [][NextBackoff]_vars

\* ------------------------------------------------- the handler and its host
\* One turn, any answer of the endpoint, and the calls on the host that may
\* throw before the request is sent.
FailureStages == {"session", "payload"}

InitHost ==
  /\ svcConfig \in {c \in ConfigDomain : c.enabled /\ c.retries = 0}
  /\ cpConfig = svcConfig
  /\ abortController = NoController
  /\ sessions = <<>>
  /\ now = 0
  /\ turn = [t \in Turns |-> InitTurn]
  /\ call = [t \in Turns |-> InitCall]
  /\ authentication = DefaultAuthentication
  /\ headers = NoHeaders
  /\ features = DefaultFeatures
  /\ workbench = NoWorkbench

NextHost ==
  \/ \E p \in Prompts, hasHistory \in BOOLEAN, rnd \in RandomIds :
       HandleChatRequest(Solo, p, hasHistory, rnd)
  \/ \E p \in Prompts, stage \in FailureStages, hasHistory \in BOOLEAN, rnd \in RandomIds :
       HandlerFails(Solo, p, stage, hasHistory, rnd)
  \/ CancelToken(Solo)
  \/ \E code \in ConnectCodes : ConnectionFails(Solo, code)
  \/ \E status \in Statuses : StatusArrives(Solo, status)
  \/ \E body \in Bodies : BodyArrives(Solo, body)
  \/ BodyUnparseable(Solo)
  \/ TimeoutElapses(Solo)

SpecHost == InitHost /\ [][NextHost]_vars

\* ------------------------------------------------- harvesting the context
\* One turn under any setting of the two context flags, in any workbench.
InitContext ==
  /\ svcConfig \in {c \in ConfigDomain : c.enabled /\ c.retries = 0 /\ c.library = "fetch"
                                         /\ c.level = "info"}
  /\ cpConfig = svcConfig
  /\ abortController = NoController
  /\ sessions = <<>>
  /\ now = 0
  /\ turn = [t \in Turns |-> InitTurn]
  /\ call = [t \in Turns |-> InitCall]
  /\ authentication = DefaultAuthentication
  /\ headers = NoHeaders
  /\ features \in FeatureConfig
  /\ workbench \in Workbenches

NextContext ==
  \/ \E p \in Prompts, rnd \in RandomIds : HandleChatRequest(Solo, p, FALSE, rnd)
  \/ \E code \in ConnectCodes : ConnectionFails(Solo, code)
  \/ StatusArrives(Solo, 200)
  \/ \E body \in Bodies : BodyArrives(Solo, body)

SpecContext == InitContext /\ [][NextContext]_vars

\* ------------------------------------------------- two requests at a time
\* Two turns of two conversations, whose calls share the one McpService:
\* the endpoint may answer, stall after the status line or stay silent.
ConcurrentTurns == {"turn1", "turn2"}

SuccessBody == McpResponse(TRUE, "", TRUE, McpData("enhanced: be precise", "", <<>>, ""))

InitConcurrent ==
  /\ svcConfig \in {c \in AtLevel("info") : c.enabled /\ c.retries \in {0, 1}}
  /\ cpConfig = svcConfig
  /\ abortController = NoController
  /\ sessions = <<>>
  /\ now = 0
  /\ turn = [t \in Turns |-> InitTurn]
  /\ call = [t \in Turns |-> InitCall]
  /\ authentication = DefaultAuthentication
  /\ headers = NoHeaders
  /\ features = DefaultFeatures
  /\ workbench = NoWorkbench

NextConcurrent ==
  \/ \E t \in ConcurrentTurns, rnd \in RandomIds :
       HandleChatRequest(t, "explain this", FALSE, rnd)
  \/ \E t \in ConcurrentTurns : StatusArrives(t, 200)
  \/ \E t \in ConcurrentTurns : BodyArrives(t, SuccessBody)
  \/ \E t \in ConcurrentTurns : TimeoutElapses(t)
  \/ \E t \in ConcurrentTurns : BackoffElapses(t)
  \/ CancelRequests

SpecConcurrent == InitConcurrent /\ [][NextConcurrent]_vars

\* Every timer that was set fires: the timeout of an attempt in flight and
\* the delay of a call that waits for its retry.
TimersFire ==
  \A t \in ConcurrentTurns : WF_vars(TimeoutElapses(t)) /\ WF_vars(BackoffElapses(t))

SpecTimers == SpecConcurrent /\ TimersFire

\* ------------------------------------------------- testing the connection
\* One call of testConnection, under any settings, against any endpoint.
InitTest ==
  /\ svcConfig \in AtLevel("info")
  /\ cpConfig = svcConfig
  /\ abortController = NoController
  /\ sessions = <<>>
  /\ now = 0
  /\ turn = [t \in Turns |-> InitTurn]
  /\ call = [t \in Turns |-> InitCall]
  /\ authentication = DefaultAuthentication
  /\ headers = NoHeaders
  /\ features = DefaultFeatures
  /\ workbench = NoWorkbench

NextTest ==
  \/ TestConnection(Solo)
  \/ \E code \in ConnectCodes : ConnectionFails(Solo, code)
  \/ \E status \in Statuses : StatusArrives(Solo, status)
  \/ \E body \in Bodies : BodyArrives(Solo, body)
  \/ BodyUnparseable(Solo)
  \/ TimeoutElapses(Solo)
  \/ BackoffElapses(Solo)

SpecTest == InitTest /\ [][NextTest]_vars

\* ------------------------------------------------- rendering a response
\* One turn answered 200 with any of the bodies a server may send, under
\* either logging level.
MaxSuggestions == 3
SuggestionLists ==
  {[i \in 1..n |-> "suggestion " \o ToString(i)] : n \in 0..MaxSuggestions}

RenderBodies ==
  {McpResponse(TRUE, "", hasData, IF hasData THEN data ELSE EmptyData) :
     hasData \in BOOLEAN,
     data \in {McpData(e, c, s, m) :
                 e \in {"", "explain this", "enhanced: be precise"},
                 c \in {"", "ctx: repo uses ts"},
                 s \in SuggestionLists,
                 m \in {"", "{model: x}"}}}

InitRender ==
  /\ svcConfig \in {c \in ConfigDomain : c.enabled /\ c.retries = 0 /\ c.library = "axios"}
  /\ cpConfig = svcConfig
  /\ abortController = NoController
  /\ sessions = <<>>
  /\ now = 0
  /\ turn = [t \in Turns |-> InitTurn]
  /\ call = [t \in Turns |-> InitCall]
  /\ authentication = DefaultAuthentication
  /\ headers = NoHeaders
  /\ features = DefaultFeatures
  /\ workbench = NoWorkbench

NextRender ==
  \/ \E p \in Prompts, rnd \in RandomIds : HandleChatRequest(Solo, p, FALSE, rnd)
  \/ StatusArrives(Solo, 200)
  \/ \E body \in RenderBodies : BodyArrives(Solo, body)

SpecRender == InitRender /\ [][NextRender]_vars

\* ------------------------------------------------- building the headers
\* buildHeaders as a function of the authentication settings: every setting
\* the settings store can deliver, and the headers the first request gets.
InitHeaders ==
  /\ svcConfig = [enabled |-> TRUE, retries |-> 0, library |-> "fetch", level |-> "info"]
  /\ cpConfig = svcConfig
  /\ abortController = NoController
  /\ sessions = <<>>
  /\ now = 0
  /\ turn = [t \in Turns |-> InitTurn]
  /\ call = [t \in Turns |-> InitCall]
  /\ authentication \in AuthenticationConfig
  /\ headers = NoHeaders
  /\ features = DefaultFeatures
  /\ workbench = NoWorkbench

\* `headers: this.buildHeaders()` of makeHttpRequest.
MakeHeaders ==
  /\ headers = NoHeaders
  /\ headers' = buildHeaders(authentication)
  /\ UNCHANGED <<svcConfig, cpConfig, abortController, sessions, now, turn, call,
                  authentication, features, workbench>>

NextHeaders == MakeHeaders

SpecHeaders == InitHeaders /\ [][NextHeaders]_vars

\* ------------------------------------------------------------------ claims
Markdowns(t) == {i \in 1..Len(turn[t].stream) : turn[t].stream[i].kind = "markdown"}
LastItem(t) == turn[t].stream[Len(turn[t].stream)]
Over(t) == call[t].pc \in {"returned", "threw"}

\* C1: with retries = r >= 0 held for the whole call, a call never makes more
\* than r + 1 HTTP attempts, waits for a retry only after fewer than r + 1 of
\* them, and when it reports failure it has made exactly r + 1.
C1_RetryBound ==
  \A t \in Turns :
    LET c == call[t] IN
    (c.stable /\ c.retries0 >= 0) =>
      /\ c.httpAttempts <= c.retries0 + 1
      /\ c.pc = "backoff" => c.httpAttempts <= c.retries0
      /\ c.pc = "threw" => c.httpAttempts = c.retries0 + 1

C1_Witness ==
  \E t \in Turns :
    /\ call[t].pc = "threw"
    /\ call[t].stable
    /\ call[t].retries0 = MaxRetries
    /\ call[t].httpAttempts = MaxRetries + 1

\* The sentence the README and the chat surface promise for an ErrorKind.
C2_Mapped(error) ==
  CASE error.type = "CONNECTION_ERROR" ->
         {"Unable to connect to MCP server. Please check your configuration."}
    [] error.type = "AUTHENTICATION_ERROR" ->
         {"Authentication failed. Please check your API credentials."}
    [] error.type = "TIMEOUT_ERROR" ->
         {"Request timed out. The MCP server may be overloaded."}
    [] error.type = "RATE_LIMITED" ->
         {"Rate limit exceeded. Please wait before making another request."}
    [] OTHER -> {"Error: ", error.message}

C2_IsFallback(item, error, prompt) ==
  /\ item.kind = "markdown"
  /\ Contains(item, FailedHeader)
  /\ \A text \in C2_Mapped(error) : Contains(item, text)
  /\ Contains(item, prompt)
  /\ item.parts[Len(item.parts)] = prompt

\* C2: whenever sendMcpRequest fails, the turn still ends, and the last thing
\* written to the stream holds the message mapped from the error's kind and
\* the original prompt; the mapping does so for each of the seven kinds.
C2_FallbackComplete ==
  /\ \A t \in Turns :
       call[t].pc = "threw" =>
         /\ turn[t].pc = "done"
         /\ C2_IsFallback(LastItem(t), call[t].thrown, turn[t].prompt)
  /\ \A kind \in McpErrorType, p \in Prompts :
       C2_IsFallback(handleMcpError(McpError(kind, "boom"), p), McpError(kind, "boom"), p)

C2_Witness ==
  \E t \in Turns :
    /\ call[t].pc = "threw"
    /\ call[t].thrown.type = "TIMEOUT_ERROR"
    /\ turn[t].pc = "done"
    /\ Contains(LastItem(t), turn[t].prompt)

\* C3 as claimed: a failure is handed back as a result and never thrown, so
\* no call ends by throwing, not even a classified error.
C3_NeverThrows ==
  \A t \in Turns : ~(call[t].pc = "threw" /\ call[t].thrown.type \in McpErrorType)

\* C3 amended: a call that is over has thrown exactly when its last attempt
\* failed or the loop made no attempt; it has returned exactly when its last
\* attempt got a 2xx body, which it returns as it is, or when the feature was
\* off, with the pass-through.
C3_FailuresAreThrown ==
  \A t \in Turns :
    LET c == call[t] IN
    Over(t) =>
      CASE c.seen.class = "ok" ->
             /\ c.pc = "returned"
             /\ c.result = makeHttpRequest(c.seen.lib, c.seen.beh).response
        [] c.seen.class = "none" ->
             /\ c.httpAttempts = 0
             /\ c.pc = "returned" =>
                  /\ c.result.success
                  /\ c.result.data.enhancedPrompt = turn[t].prompt
        [] OTHER ->
             /\ c.pc = "threw"
             /\ c.thrown # Undefined

C3_Witness ==
  \E t \in Turns :
    /\ call[t].pc = "threw"
    /\ call[t].seen.class = "CONNECTION_ERROR"
    /\ call[t].httpAttempts > 0

\* C4: every failure that leaves sendMcpRequest carries one of the seven
\* ErrorKind values.
C4_AlwaysClassified ==
  \A t \in Turns : call[t].pc = "threw" => call[t].thrown.type \in McpErrorType

\* C5: a prompt handled while features.enabled is false yields exactly one
\* segment, which holds the prompt, and touches neither the transport nor the
\* sessions.
C5_PassThrough ==
  [][\A t \in Turns :
       (turn[t].pc = "idle" /\ turn'[t].pc # "idle" /\ ~cpConfig.enabled) =>
         /\ turn'[t].pc = "done"
         /\ Len(turn'[t].stream) = 1
         /\ turn'[t].stream[1].kind = "markdown"
         /\ Contains(turn'[t].stream[1], turn'[t].prompt)
         /\ call' = call
         /\ call[t].httpAttempts = 0
         /\ sessions' = sessions
         /\ abortController' = abortController]_vars

C5_Witness ==
  \E t \in Turns :
    /\ ~cpConfig.enabled
    /\ turn[t].pc = "done"
    /\ call[t].pc = "none"
    /\ turn[t].stream = <<PassThroughSegment(turn[t].prompt)>>
    /\ DOMAIN sessions = {}

\* C6: an attempt answered with status 429 is classified RATE_LIMITED.
C6_RateLimited ==
  \A t \in Turns :
    LET seen == call[t].seen IN
    (seen.beh.kind = "status" /\ seen.beh.status = 429) => seen.class = "RATE_LIMITED"

OtherLibrary(lib) == IF lib = "fetch" THEN "axios" ELSE "fetch"

\* C7: the outcome of an attempt is the one the other transport yields for
\* the same server behaviour.
C7_Interchangeable ==
  \A t \in Turns :
    LET seen == call[t].seen
        other == makeHttpRequest(OtherLibrary(seen.lib), seen.beh)
    IN seen.beh.kind \in {"refused", "status", "2xx json", "silent"} =>
         /\ seen.class = Class(other)
         /\ (call[t].pc = "returned" => call[t].result = other.response)

\* C8: no attempt stays in flight once its timeout has elapsed, and an
\* attempt that was in flight when its timeout elapsed ends as TIMEOUT_ERROR.
C8_TimeoutCancels ==
  \A t \in Turns :
    /\ InFlight(t) => ~call[t].elapsed
    /\ call[t].seen.elapsed => call[t].seen.class = "TIMEOUT_ERROR"

\* C9: an attempt is classified TIMEOUT_ERROR only if its timeout elapsed.
C9_TimeoutOnlyByTimer ==
  \A t \in Turns : call[t].seen.class = "TIMEOUT_ERROR" => call[t].seen.elapsed

\* C10: a turn whose token was triggered by the time its call finished has
\* written no markdown segment.
C10_CancelledIsSilent ==
  \A t \in Turns : (Over(t) /\ turn[t].token) => Markdowns(t) = {}

\* The headings that open the segments of a rendered success.
C11_SuccessHeadings ==
  {"**Enhanced Prompt:** ", "**Additional Context:**\n", "**Suggestions:**\n"}

\* C11: a turn that was not cancelled and whose call returned a parsed 2xx
\* body with success = false ends as a failure: the stream holds the progress
\* indicator and one failure segment, which carries the message of the body
\* and the prompt, and no segment opens with a heading of a success.
C11_UnsuccessfulBodyFails ==
  \A t \in Turns :
    LET c == call[t] IN
    (c.pc = "returned" /\ c.seen.beh.kind = "2xx json" /\ ~c.seen.beh.body.success
       /\ ~turn[t].token) =>
      /\ turn[t].pc = "done"
      /\ Len(turn[t].stream) = 2
      /\ turn[t].stream[1] = ProcessingIndicator
      /\ Contains(LastItem(t), FailedHeader)
      /\ Contains(LastItem(t), c.seen.beh.body.errorMessage)
      /\ Contains(LastItem(t), turn[t].prompt)
      /\ \A i \in 1..Len(turn[t].stream), h \in C11_SuccessHeadings :
           ~Contains(turn[t].stream[i], h)

C11_Witness ==
  \E t \in Turns :
    /\ call[t].pc = "returned"
    /\ call[t].seen.beh.kind = "2xx json"
    /\ call[t].seen.beh.body = McpResponse(FALSE, "bad", FALSE, EmptyData)
    /\ ~turn[t].token
    /\ Contains(LastItem(t), "bad")

C12_Sextet(digit) == CHOOSE i \in 0..63 : Base64Alphabet[i + 1] = digit

\* The bytes a base64 text stands for (RFC 4648).
RECURSIVE C12_FromBase64(_)
C12_FromBase64(digits) ==
  IF Len(digits) < 4 THEN <<>>
  ELSE LET s1 == C12_Sextet(digits[1])
           s2 == C12_Sextet(digits[2])
           rest == SubSeq(digits, 5, Len(digits))
       IN IF digits[3] = "=" THEN <<s1 * 4 + s2 \div 16>>
          ELSE IF digits[4] = "="
            THEN <<s1 * 4 + s2 \div 16, (s2 % 16) * 16 + C12_Sextet(digits[3]) \div 4>>
          ELSE <<s1 * 4 + s2 \div 16, (s2 % 16) * 16 + C12_Sextet(digits[3]) \div 4,
                 (C12_Sextet(digits[3]) % 4) * 64 + C12_Sextet(digits[4])>>
               \o C12_FromBase64(rest)

\* C12: the headers built from an authentication setting with a non-empty
\* token t hold, under headerName, "Bearer " + t for bearer, t alone for
\* api-key, and for basic "Basic " followed by the base64 text of the bytes
\* of t (4 digits for every 3 bytes, decoding back to t; "u:p" gives
\* "dTpw"); for none the key headerName is absent.
C12_AuthHeader ==
  LET t == authentication.token
      n == authentication.headerName
  IN headers # NoHeaders =>
       /\ authentication.type = "none" => n \notin DOMAIN headers
       /\ (authentication.type = "bearer" /\ t # <<>>) =>
            n \in DOMAIN headers /\ headers[n] = <<"Bearer ">> \o t
       /\ (authentication.type = "api-key" /\ t # <<>>) =>
            n \in DOMAIN headers /\ headers[n] = t
       /\ (authentication.type = "basic" /\ t # <<>>) =>
            /\ n \in DOMAIN headers
            /\ Head(headers[n]) = "Basic "
            /\ Len(Tail(headers[n])) = 4 * ((Len(t) + 2) \div 3)
            /\ C12_FromBase64(Tail(headers[n])) = BufferFrom(t)
            /\ t = <<"u", ":", "p">> => headers[n] = <<"Basic ", "d", "T", "p", "w">>

C12_Witness ==
  /\ headers # NoHeaders
  /\ authentication.type = "basic"
  /\ authentication.token = <<"u", ":", "p">>
  /\ headers[authentication.headerName] = <<"Basic ", "d", "T", "p", "w">>

\* C13: an attempt answered with a 2xx status and a body that does not parse
\* is classified INVALID_RESPONSE, whichever the transport.
C13_InvalidResponse ==
  \A t \in Turns :
    call[t].seen.beh.kind = "2xx not json" => call[t].seen.class = "INVALID_RESPONSE"

\* C15: the attempts of a call come one at a time.  While one is in flight
\* every earlier one has ended and had its failure recorded; a step starts at
\* most one attempt, and starts the second and later ones only as the step
\* in which the backoff delay after the recorded failure elapses.
C15_OneAttemptAtATime ==
  [][\A t \in Turns :
       /\ InFlight(t) => call[t].httpAttempts = call[t].attempt + 1
       /\ call'[t].httpAttempts # call[t].httpAttempts =>
            /\ call'[t].httpAttempts = call[t].httpAttempts + 1
            /\ call'[t].pc = "inflight"
            /\ call[t].pc \in {"none", "backoff"}
            /\ call[t].pc = "backoff" =>
                 /\ call[t].attempt = call[t].httpAttempts
                 /\ call[t].lastError # Undefined
                 /\ call[t].seen.class \notin {"none", "ok"}]_vars

C15_Witness ==
  \E t \in Turns :
    /\ InFlight(t)
    /\ call[t].httpAttempts = 2
    /\ call[t].attempt = 1
    /\ call[t].lastError # Undefined

\* C16: every attempt of a call is sent by the transport of one snapshot,
\* and the number of attempts a failed call made is the retry bound of the
\* snapshot its first attempt was sent under.
C16_OneSnapshot ==
  \A t \in Turns :
    LET c == call[t] IN
    /\ (InFlight(t) /\ c.httpAttempts >= 2) => c.lib = c.seen.lib
    /\ (c.pc = "threw" /\ c.httpAttempts >= 1) => c.httpAttempts = c.retries0 + 1

\* C18: a turn whose request was sent and that wrote an outcome for its
\* session, a rendered success or a failure with its fallback, has been
\* counted in that session.
C18_OutcomeCounted ==
  \A t \in Turns :
    (turn[t].pc = "done" /\ call[t].httpAttempts >= 1 /\ Markdowns(t) # {}
       /\ turn[t].session \in DOMAIN sessions) =>
      sessions[turn[t].session].messageCount >= 1

\* C14: every attempt of a call sent the same body, the serialization of the
\* request the turn built, whose timestamp is the time of building and not
\* the time of the attempt.
C14_SamePayload ==
  \A t \in Turns :
    LET c == call[t] IN
    /\ Len(c.sent) = c.httpAttempts
    /\ \A i \in 1..Len(c.sent) :
         /\ c.sent[i] = c.sent[1]
         /\ c.sent[i] = JSONstringify(c.request)
    /\ c.httpAttempts >= 1 =>
         /\ c.request.prompt = turn[t].prompt
         /\ c.request.sessionId = turn[t].session
         /\ c.request.userId = UserId
         /\ c.request.timestamp <= now

C14_Witness ==
  \E t \in Turns :
    /\ Len(call[t].sent) = 2
    /\ call[t].sent[2] = call[t].sent[1]
    /\ call[t].request.timestamp < now
    /\ InFlight(t)

\* C17: two turns of one conversation hold the same session, as long as the
\* session of the one is still in the map.
C17_SameSession ==
  \A t, u \in Turns :
    (/\ Conversation(t) = Conversation(u)
     /\ turn[t].session \in DOMAIN sessions
     /\ turn[u].session # NoSession) =>
      turn[u].session = turn[t].session

C19_Expired(ss, time) == {id \in DOMAIN ss : time - ss[id].lastActivity > 24 * 60 * 60 * 1000}

\* C19: in every state the program reaches, the sweep run at the time of the
\* state leaves exactly the sessions that are not older than 24 hours, each
\* of them as it was.
C19_SweepExact ==
  LET after == cleanupSessions(sessions, now) IN
  /\ DOMAIN after = DOMAIN sessions \ C19_Expired(sessions, now)
  /\ \A id \in DOMAIN after : after[id] = sessions[id]

\* A sweep has removed the session of one turn and kept, unchanged, the
\* session of another, which is exactly 24 hours old.
C19_Witness ==
  \E t, u \in Turns :
    /\ turn[t].session # NoSession
    /\ turn[t].session \notin DOMAIN sessions
    /\ turn[u].session \in DOMAIN sessions
    /\ now - sessions[turn[u].session].lastActivity = maxAge
    /\ sessions = cleanupSessions(sessions, now)

\* C20: turns of different conversations never hold the same session id.
C20_UniqueIds ==
  \A t, u \in Turns :
    (Conversation(t) # Conversation(u) /\ turn[t].session # NoSession) =>
      turn[u].session # turn[t].session

\* The segments a turn wrote after the processing indicator.
C21_Segments(t) == Tail(turn[t].stream)

\* The place of a segment in the order of a rendered success.
C21_Rank(item) ==
  IF Contains(item, "**Enhanced Prompt:** ") THEN 1
  ELSE IF Contains(item, "**Additional Context:**\n") THEN 2
  ELSE IF Contains(item, "**Debug Info:**\n") THEN 4
  ELSE 3

C21_Ranked(t, rank) ==
  {i \in 1..Len(C21_Segments(t)) : C21_Rank(C21_Segments(t)[i]) = rank}

C21_Rendered(t) ==
  /\ turn[t].pc = "done"
  /\ ~turn[t].token
  /\ call[t].pc = "returned"
  /\ call[t].result.success

\* What holds of every rendered success whatever the enhanced prompt: the
\* order, and when context, suggestions and metadata are written.
C21_OrderAndRest(t) ==
  LET segs == C21_Segments(t)
      r == call[t].result
  IN /\ \A i, j \in 1..Len(segs) : i < j => C21_Rank(segs[i]) <= C21_Rank(segs[j])
     /\ \A rank \in {1, 2, 4} : Cardinality(C21_Ranked(t, rank)) <= 1
     /\ C21_Ranked(t, 2) # {} <=> (r.hasData /\ r.data.additionalContext # "")
     /\ \A i \in C21_Ranked(t, 2) : Contains(segs[i], r.data.additionalContext)
     /\ C21_Ranked(t, 3) # {} <=> (r.hasData /\ r.data.suggestions # <<>>)
     /\ C21_Ranked(t, 4) # {} <=>
          (r.hasData /\ r.data.metadata # "" /\ cpConfig.level = "debug")
     /\ \A i \in C21_Ranked(t, 4) : Contains(segs[i], r.data.metadata)

\* C21 as claimed: on a rendered success the segments come in the order
\* enhanced prompt, additional context, suggestions, metadata, and an
\* enhanced prompt segment is written exactly when the response holds an
\* enhanced prompt that differs from the original prompt.
C21_AsClaimed ==
  \A t \in Turns :
    C21_Rendered(t) =>
      LET r == call[t].result IN
      /\ C21_OrderAndRest(t)
      /\ C21_Ranked(t, 1) # {} <=>
           (r.hasData /\ r.data.enhancedPrompt # ""
              /\ r.data.enhancedPrompt # turn[t].prompt)

\* C21 amended: the same, but an enhanced prompt segment is also written,
\* holding the original prompt, when the response has no data at all.
C21_RenderOrder ==
  \A t \in Turns :
    C21_Rendered(t) =>
      LET r == call[t].result
          segs == C21_Segments(t)
      IN /\ C21_OrderAndRest(t)
         /\ C21_Ranked(t, 1) # {} <=>
              \/ ~r.hasData
              \/ r.data.enhancedPrompt # "" /\ r.data.enhancedPrompt # turn[t].prompt
         /\ \A i \in C21_Ranked(t, 1) :
              Contains(segs[i], IF r.hasData THEN r.data.enhancedPrompt ELSE turn[t].prompt)

C21_Witness ==
  \E t \in Turns :
    /\ C21_Rendered(t)
    /\ cpConfig.level = "debug"
    /\ C21_Ranked(t, 1) = {1}
    /\ C21_Ranked(t, 2) = {2}
    /\ C21_Ranked(t, 3) # {}
    /\ C21_Ranked(t, 4) = {Len(C21_Segments(t))}

\* The suggestion entries a turn wrote, in the order written.
C22_Entries(t) ==
  SelectSeq(C21_Segments(t), LAMBDA item : Len(item.parts) = 3 /\ item.parts[1] = "* ")

\* C22: a rendered success holds the suggestions in the server's order, and
\* fewer of them than the longest list a server sends: there is a display
\* count that the number of entries written does not exceed.
C22_Capped ==
  \A t \in Turns :
    C21_Rendered(t) =>
      LET entries == C22_Entries(t)
          given == call[t].result.data.suggestions
      IN /\ Len(entries) <= Len(given)
         /\ \A i \in 1..Len(entries) : entries[i].parts[2] = given[i]
         /\ Len(entries) < MaxSuggestions

C24_NoAttemptAfterCancel ==
  [][\A t \in Turns :
       turn[t].token => call'[t].httpAttempts = call[t].httpAttempts]_vars

\* The request of t ran out of attempts against a transport that always fails.
C25_Exhausted(t) ==
  /\ call[t].pc = "threw"
  /\ call[t].httpAttempts = svcConfig.retries + 1

\* C25 as claimed: the delay awaited immediately before attempt k (k >= 2)
\* is min(1000 * 2^(k-1), 10000) ms.
C25_AsClaimed ==
  \A t \in Turns : \A k \in 2..call[t].httpAttempts :
    call[t].delays[k - 1] = Min(1000 * 2 ^ (k - 1), 10000)

\* C25 amended: the delay awaited immediately before attempt k (k >= 2) is
\* min(1000 * 2^(k-2), 10000) ms: 1000 before the second attempt, doubling
\* up to the cap, one delay between any two consecutive attempts and none
\* after the last.
C25_Delays ==
  \A t \in Turns :
    /\ \A k \in 2..call[t].httpAttempts :
         call[t].delays[k - 1] = Min(1000 * 2 ^ (k - 2), 10000)
    /\ Len(call[t].delays) =
         IF call[t].pc = "backoff" THEN call[t].httpAttempts
         ELSE IF call[t].httpAttempts = 0 THEN 0 ELSE call[t].httpAttempts - 1
    /\ C25_Exhausted(t) => Len(call[t].delays) = svcConfig.retries

C25_Witness ==
  \E t \in Turns :
    /\ C25_Exhausted(t)
    /\ svcConfig.retries = MaxFailRetries
    /\ call[t].delays = <<1000, 2000, 4000, 8000, 10000>> \o
                        [i \in 1..(MaxFailRetries - 5) |-> 10000]

\* The error the last attempt of t settled with, as makeHttpRequest threw it.
C26_LastFailure(t) == makeHttpRequest(call[t].seen.lib, call[t].seen.beh).error

\* C26: a request whose attempts all failed throws the classification of
\* the failure of its last attempt, and a failure that makeHttpRequest had
\* already classified is thrown with its type and message unchanged.
C26_LastErrorSurfaced ==
  \A t \in Turns :
    (call[t].pc = "threw" /\ call[t].httpAttempts >= 1) =>
      LET e == C26_LastFailure(t) IN
      /\ call[t].thrown = handleError(e)
      /\ call[t].thrown.type = call[t].seen.class
      /\ e.type \in McpErrorType =>
           /\ call[t].thrown.type = e.type
           /\ call[t].thrown.message = e.message

C26_Witness ==
  \E t \in Turns :
    /\ call[t].pc = "threw"
    /\ call[t].httpAttempts >= 2
    /\ call[t].seen.beh = Answers(429)
    /\ call[t].thrown = C26_LastFailure(t)
    /\ call[t].thrown.type = "RATE_LIMITED"

\* C27: the failure segment of a turn depends on the type of the error
\* only: it is the segment written for an error of the same type with any
\* other message.
C27_SentencePerKind ==
  \A t \in Turns :
    (turn[t].pc = "done" /\ call[t].pc = "threw" /\ call[t].thrown.type \in McpErrorType) =>
      LastItem(t) = handleMcpError(McpError(call[t].thrown.type, "another message"),
                                   turn[t].prompt)

\* C28: a finished turn that was not cancelled and did not render a success
\* shows, as its last segment, the enhancement-failed message together with
\* the original prompt, whatever failed: the session, the payload, the
\* transport call or the rendering.
C28_WorstOutcome ==
  \A t \in Turns :
    (/\ turn[t].pc = "done"
     /\ cpConfig.enabled
     /\ ~turn[t].token
     /\ ~(call[t].pc = "returned" /\ call[t].result.success)) =>
      /\ Markdowns(t) # {}
      /\ Contains(LastItem(t), FailedHeader)
      /\ Contains(LastItem(t), turn[t].prompt)

\* The request of t has been built and sent at least once.
C29_Sent(t) == call[t].httpAttempts >= 1

\* The payload of the first attempt of t names the field k of the context.
C29_OnTheWire(t, k) ==
  \E i \in 1..Len(call[t].sent[1]) :
    call[t].sent[1][i] \in {"\"" \o k \o "\":\"", "\"" \o k \o "\":[", "\"" \o k \o "\":{\"path\":\"",
                            "\"" \o k \o "\":{\"start\":"}

\* C29: the context of a request that was sent has workspaceRoot and
\* openFiles only under includeWorkspaceContext and with a workspace folder,
\* activeFile only under includeActiveFile and with an active editor,
\* selection only if moreover the selection is not empty; each field holds
\* the harvested value, and the payload on the wire names the same fields.
C29_ContextGated ==
  \A t \in Turns :
    C29_Sent(t) =>
      LET ctx == call[t].request.context
          editor == workbench.activeTextEditor
      IN /\ ~features.includeWorkspaceContext =>
              DOMAIN ctx \cap {"workspaceRoot", "openFiles"} = {}
         /\ ~features.includeActiveFile =>
              DOMAIN ctx \cap {"activeFile", "selection"} = {}
         /\ "workspaceRoot" \in DOMAIN ctx =>
              /\ features.includeWorkspaceContext
              /\ workbench.workspaceFolder # None
              /\ ctx["workspaceRoot"] = workbench.workspaceFolder
         /\ "openFiles" \in DOMAIN ctx =>
              /\ features.includeWorkspaceContext
              /\ workbench.workspaceFolder # None
              /\ \A i \in 1..Len(ctx["openFiles"]) :
                   \E j \in 1..Len(workbench.textDocuments) :
                     /\ workbench.textDocuments[j].path = ctx["openFiles"][i]
                     /\ ~workbench.textDocuments[j].isUntitled
         /\ "activeFile" \in DOMAIN ctx =>
              /\ features.includeActiveFile
              /\ editor # NoEditor
              /\ ctx["activeFile"].path = editor.document.path
              /\ ctx["activeFile"].content = editor.document.text
         /\ "selection" \in DOMAIN ctx =>
              /\ features.includeActiveFile
              /\ editor # NoEditor
              /\ ~IsEmpty(editor.selection)
              /\ ctx["selection"].text = editor.selection.text
         /\ \A i \in 1..Len(ContextFields) :
              C29_OnTheWire(t, ContextFields[i]) <=> ContextFields[i] \in DOMAIN ctx

C29_Witness ==
  \E t \in Turns :
    /\ C29_Sent(t)
    /\ ~features.includeWorkspaceContext
    /\ features.includeActiveFile
    /\ workbench.workspaceFolder # None
    /\ workbench.textDocuments # <<>>
    /\ DOMAIN call[t].request.context = {"activeFile", "selection"}
    /\ C29_OnTheWire(t, "selection")
    /\ ~C29_OnTheWire(t, "workspaceRoot")

\* C30: a session is created with messageCount 0; as long as it exists its
\* messageCount and its lastActivity do not decrease from one step to the
\* next, whatever the step (a turn starting, succeeding or failing, a
\* cancellation, a sweep, the clock), and its lastActivity is not earlier
\* than its startTime.
C30_Monotone ==
  [][/\ \A id \in DOMAIN sessions \cap DOMAIN sessions' :
          /\ sessions'[id].messageCount >= sessions[id].messageCount
          /\ sessions'[id].lastActivity >= sessions[id].lastActivity
          /\ sessions'[id].startTime = sessions[id].startTime
     /\ \A id \in DOMAIN sessions' \ DOMAIN sessions :
          sessions'[id].messageCount = 0
     /\ \A id \in DOMAIN sessions' :
          sessions'[id].lastActivity >= sessions'[id].startTime]_vars

C30_Witness ==
  \E id \in DOMAIN sessions :
    /\ sessions[id].messageCount >= 1
    /\ sessions[id].lastActivity > sessions[id].startTime
    /\ \E t \in Turns :
         /\ turn[t].pc = "done"
         /\ turn[t].token
         /\ turn[t].session \in DOMAIN sessions \ {id}
         /\ sessions[turn[t].session].messageCount = 0

\* C31: the n-th failed attempt of a request is followed, when n <= retries,
\* by a wait of min(1000 * 2^(n-1), 10000) ms before attempt n + 1, and by
\* no wait at all when it was the last: the failure is thrown at once.
C31_WaitAfterFailure ==
  \A t \in Turns :
    LET c == call[t] IN
    /\ \A n \in 1..Len(c.delays) : c.delays[n] = Min(1000 * 2 ^ (n - 1), 10000)
    /\ c.pc = "backoff" => (Len(c.delays) = c.attempt /\ c.attempt <= svcConfig.retries)
    /\ c.pc = "inflight" => Len(c.delays) = c.attempt
    /\ c.pc = "threw" => (c.attempt = svcConfig.retries + 1 /\ Len(c.delays) = svcConfig.retries)

C31_Witness ==
  \E t \in Turns :
    /\ call[t].pc = "backoff"
    /\ call[t].attempt = 5
    /\ call[t].delays[4] = 8000
    /\ call[t].delays[5] = 10000

\* C32: for every authentication type other than none the headers built
\* hold an authentication header under headerName, whatever the token, the
\* empty token included.
C32_HeaderWhateverToken ==
  (headers # NoHeaders /\ authentication.type # "none") =>
    authentication.headerName \in DOMAIN headers

\* C33: a call that is under way (an attempt in flight, or waiting for its
\* retry) eventually returns or throws, given that every timer fires.
C33_EventuallyOutcome ==
  \A t \in ConcurrentTurns :
    (call[t].pc \in {"inflight", "backoff"}) ~> (call[t].pc \in {"returned", "threw"})

\* C34: when the timeout of an attempt of t elapses, the call of no other
\* turn is touched, and if the timer of the attempt was still armed the
\* attempt itself is over.
C34_OwnTimerOnly ==
  [][\A t \in ConcurrentTurns :
       (call[t].pc = "inflight" /\ ~call[t].elapsed /\ call'[t].elapsed) =>
         /\ \A u \in ConcurrentTurns \ {t} : call'[u] = call[u]
         /\ call[t].timer => call'[t].httpAttempts > call[t].httpAttempts
                             \/ call'[t].pc # "inflight"]_vars

\* C35: the step of cancelRequests(), which is the only one to clear the
\* controller held by the service, leaves no call under way: every call
\* that had an attempt in flight or waited for a retry has ended, so that
\* no attempt of it can start afterwards.
C35_AllStopped ==
  [][(abortController # NoController /\ abortController' = NoController) =>
       \A t \in ConcurrentTurns :
         call[t].pc \in {"inflight", "backoff"} => call'[t].pc \in {"returned", "threw"}]_vars

\* The attempt of t that ended last was answered 2xx with a body that says
\* success: false.
C36_BodySaysFailure(t) ==
  /\ call[t].seen.beh.kind = "2xx json"
  /\ ~call[t].seen.beh.body.success

\* C36: such an attempt is the last of its request: the call has returned
\* that body, unchanged and classified as no failure, with no delay awaited
\* after the attempt, and it is the handler that, unless the turn was
\* cancelled, reports the failure afterwards.
C36_NoRetryAfterBody ==
  \A t \in Turns :
    C36_BodySaysFailure(t) =>
      /\ call[t].pc = "returned"
      /\ call[t].result = call[t].seen.beh.body
      /\ call[t].seen.class = "ok"
      /\ call[t].thrown = Undefined
      /\ Len(call[t].delays) = call[t].httpAttempts - 1
      /\ call[t].attempt = call[t].httpAttempts - 1
      /\ turn[t].pc = "done"
      /\ ~turn[t].token => LastItem(t) =
           handleMcpError(McpError("SERVER_ERROR", call[t].result.errorMessage),
                          turn[t].prompt)

C36_Witness ==
  \E t \in Turns :
    /\ C36_BodySaysFailure(t)
    /\ svcConfig.retries = 1
    /\ call[t].httpAttempts = 1
    /\ call[t].pc = "returned"
    /\ Contains(LastItem(t), "Error: ")

\* C37: a finished turn that was handled with the feature enabled and was
\* not cancelled has written at least one markdown segment.
C37_SomeContent ==
  \A t \in Turns :
    (turn[t].pc = "done" /\ cpConfig.enabled /\ ~turn[t].token) => Markdowns(t) # {}

\* C38: testConnection resolves with success only if an attempt carrying
\* the sentinel prompt and the empty context was sent and answered 2xx, and
\* in every other case with success: false and a message that starts with
\* "Connection failed: ".
C38_TestMeansReached ==
  \A t \in Turns :
    (turn[t].pc = "done" /\ turn[t].prompt = TestPrompt) =>
      /\ turn[t].tested.success =>
           /\ call[t].httpAttempts >= 1
           /\ call[t].seen.beh.kind \in {"2xx json", "2xx not json"}
           /\ \A i \in 1..Len(call[t].sent) :
                call[t].sent[i] = JSONstringify(McpRequest(TestPrompt, "test", "test", 0,
                                                           EmptyContext))
      /\ ~turn[t].tested.success => Head(turn[t].tested.message) = "Connection failed: "

\* C39: a call made with the feature enabled throws only after at least one
\* HTTP attempt, whatever the configured number of retries.
C39_FailsOnlyAfterAttempt ==
  \A t \in Turns :
    (call[t].pc = "threw" /\ call[t].stable /\ svcConfig.enabled) => call[t].httpAttempts >= 1

====
